---- MODULE Spec2Model ----
(***************************************************************************)
(* The concurrent optimization driver of parameter_optimizer               *)
(* (src/parameter_optimizer/src/optimization.rs): the worker threads of    *)
(* run_thread, the shared STATE behind its Mutex, the RUNNING flag, the    *)
(* BEST_FITNESS scalar and the trace files the workers create, read, copy  *)
(* and delete.                                                             *)
(*                                                                         *)
(* f64 values are modelled by integers, and a load or a store of an atomic *)
(* is one step on one value.  The external collaborators (the simulator    *)
(* process, the trace parser, the filesystem, the tpe optimizer's ask) are *)
(* inputs: every outcome they can produce is drawn with \E.  get_fitness   *)
(* returns a number for every trace the parser accepts, and tell is applied *)
(* to a value its own optimizer proposed and to that number, so the unwraps *)
(* of lines 64, 230 and 342 do not fire and the lock is never poisoned.     *)
(*                                                                         *)
(* Spec follows run() and its worker threads, FairSpec adds the scheduling *)
(* of the threads, and ScoringSpec follows one call of get_fitness on its  *)
(* own, on every trace of a small set.                                     *)
(***************************************************************************)
EXTENDS Integers, Sequences, FiniteSets, TLC

\* ------------------------------------------------------------------ bounds

\* Number of worker threads: num_cpus::get() on a machine of two processors.
NumWorkers == 2

\* Total number of loop iterations the workers may start in one run.
MaxIter == 2

Workers == 1..NumWorkers

\* Values an optimizer's ask may propose, all inside range(0.0, param_max):
\* two for a and one for r, no value shared, so that a value shows the
\* parameter and the draw it came from.
AskValues(p) == IF p = "a" THEN {1, 2} ELSE {3}

\* Fitness scores get_fitness may return: below and above the 1000.0 sentinel.
FitnessValues == {998, 999, 1001}

\* Random alphanumeric file names; a small set, so that two draws can agree.
FileNames == {"x", "y"}

\* ------------------------------------------------------- program constants

\* The parameters of StateImpl.params, in the order of the vector.
Params == <<"a", "r">>

ParamNames == {Params[i] : i \in 1..Len(Params)}

\* BEST_FITNESS starts at 1000.0.
InitialBestFitness == 1000

\* The seed observation told to every optimizer: tell(1.0, 1000.0).
SeedValue == 1

SeedFitness == 1000

\* A HashMap with no entries.
EmptyMap == [k \in {} |-> 0]

\* An insert that also leaves an entry under the name of the command-line
\* argument pushed on the line after it.
MapInsertAlsoArg(m, k, v) ==
    [x \in (DOMAIN m) \cup {k, "args"} |-> IF x \in {k, "args"} THEN v ELSE m[x]]

\* HashMap::insert
MapInsert(m, k, v) == [x \in (DOMAIN m) \cup {k} |-> IF x = k THEN v ELSE m[x]]

\* ------------------------------------------------------------------- state

VARIABLES
    RUNNING,        \* the AtomicBool cleared by the Control-C handler
    BEST_FITNESS,   \* the AtomicF64
    holds,          \* holds[w]: worker w owns the MutexGuard of STATE
    optim,          \* optim[p]: the (value, fitness) observations told to p's optimizer
    results,        \* StateImpl.results
    files,          \* names of the trace files present in the working directory
    pc,             \* where each worker is in run_thread / run_analysis
    pos_file_name,  \* each worker's pos_file_name ("none" outside the loop body)
    param_map,      \* each worker's param_map
    fitness,        \* run_analysis's fitness (0 where no later step reads it)
    old_fitness,    \* run_analysis's old_fitness (0 where no later step reads it)
    exit_status,    \* how the simulator of the worker's latest iteration ended
    analysis,       \* how reading and parsing the trace of the latest iteration ended
    asked,          \* history: the (name, value) pairs asked in the latest iteration
    told,           \* history: the (name, value) pairs told in the latest iteration
    recorded,       \* history: the latest iteration pushed its Trial
    copy_err,       \* history: the worker's std::fs::copy returned Err
    started,        \* history: iterations started so far
    succ,           \* history: evaluations that produced a fitness so far
    driver,         \* where run() is: joining the threads, exporting, or ended
    scoring         \* the locals of a call of get_fitness taken on its own

\* The state of the driver and of its worker threads.
runvars == <<RUNNING, BEST_FITNESS, holds, optim, results, files, pc,
             pos_file_name, param_map, fitness, old_fitness, exit_status, analysis,
             asked, told, recorded, copy_err, started, succ, driver>>

vars == <<runvars, scoring>>

\* The state when run() has seeded the optimizers and spawned the threads.
RunInit ==
    /\ RUNNING = TRUE
    /\ BEST_FITNESS = InitialBestFitness
    /\ holds = [w \in Workers |-> FALSE]
    /\ optim = [p \in ParamNames |-> << <<SeedValue, SeedFitness>> >>]
    /\ results = << >>
    /\ files = {}
    /\ pc = [w \in Workers |-> "check"]
    /\ pos_file_name = [w \in Workers |-> "none"]
    /\ param_map = [w \in Workers |-> EmptyMap]
    /\ fitness = [w \in Workers |-> 0]
    /\ old_fitness = [w \in Workers |-> 0]
    /\ exit_status = [w \in Workers |-> "none"]
    /\ analysis = [w \in Workers |-> "none"]
    /\ asked = [w \in Workers |-> << >>]
    /\ told = [w \in Workers |-> << >>]
    /\ recorded = [w \in Workers |-> FALSE]
    /\ copy_err = [w \in Workers |-> FALSE]
    /\ started = 0
    /\ succ = 0
    /\ driver = "joining"

\* Option<T>: None, and Some(x).
None == << >>

Some(x) == <<x>>

\* No call of get_fitness is being followed.
NotScoring ==
    [pc |-> "idle", data |-> [simulation_length |-> 0, frames |-> << >>],
     time |-> 0, last_poses |-> << >>, all_distances |-> << >>,
     all_velocities |-> << >>, under_mad_threshold_time |-> None,
     stable_time |-> None, fitness |-> None]

Init == RunInit /\ scoring = NotScoring

\* ----------------------------------------------------------------- the lock

\* A lock that does not exclude.
LockAlwaysFree == TRUE

\* Mutex::lock returns only when no thread owns the guard.
LockFree == \A v \in Workers : ~holds[v]

\* --------------------------------------------------------------- the handler

\* The Control-C handler: RUNNING.store(false).
Interrupt ==
    /\ RUNNING
    /\ RUNNING' = FALSE
    /\ UNCHANGED <<scoring, BEST_FITNESS, holds, optim, results, files, pc,
                   pos_file_name, param_map, fitness, old_fitness, exit_status,
                   analysis, asked, told, recorded, copy_err, started, succ, driver>>

\* ---------------------------------------------------------------- run_thread

\* The thread function returns or unwinds: its locals are dropped, and with
\* them the history of its latest iteration.
DropThread(w) ==
    /\ pos_file_name' = [pos_file_name EXCEPT ![w] = "none"]
    /\ param_map' = [param_map EXCEPT ![w] = EmptyMap]
    /\ fitness' = [fitness EXCEPT ![w] = 0]
    /\ old_fitness' = [old_fitness EXCEPT ![w] = 0]
    /\ exit_status' = [exit_status EXCEPT ![w] = "none"]
    /\ analysis' = [analysis EXCEPT ![w] = "none"]
    /\ asked' = [asked EXCEPT ![w] = << >>]
    /\ told' = [told EXCEPT ![w] = << >>]
    /\ recorded' = [recorded EXCEPT ![w] = FALSE]

\* The body of the while loop ends: the locals of the iteration are dropped,
\* and with them its history.  param_map lives on until it is cleared.
EndIteration(w) ==
    /\ pc' = [pc EXCEPT ![w] = "check"]
    /\ pos_file_name' = [pos_file_name EXCEPT ![w] = "none"]
    /\ fitness' = [fitness EXCEPT ![w] = 0]
    /\ old_fitness' = [old_fitness EXCEPT ![w] = 0]
    /\ exit_status' = [exit_status EXCEPT ![w] = "none"]
    /\ analysis' = [analysis EXCEPT ![w] = "none"]
    /\ told' = [told EXCEPT ![w] = << >>]
    /\ recorded' = [recorded EXCEPT ![w] = FALSE]
    /\ UNCHANGED <<param_map, asked>>

\* A loop that does not look at the flag.
KeepRunningAlways(flag) == TRUE

\* The condition of the while loop on the value loaded from RUNNING.
KeepRunning(flag) == flag

\* while RUNNING.load(): leave the loop, or name this iteration's trace file.
CheckRunning(w) ==
    /\ pc[w] = "check"
    /\ IF KeepRunning(RUNNING)
       THEN /\ started < MaxIter
            /\ \E name \in FileNames :
                   pos_file_name' = [pos_file_name EXCEPT ![w] = name]
            /\ pc' = [pc EXCEPT ![w] = "lock_ask"]
            /\ started' = started + 1
            /\ UNCHANGED <<param_map, fitness, old_fitness, exit_status,
                           analysis, asked, told, recorded>>
       ELSE /\ pc' = [pc EXCEPT ![w] = "exited"]
            /\ DropThread(w)
            /\ UNCHANGED started
    /\ UNCHANGED <<scoring, RUNNING, BEST_FITNESS, holds, optim, results, files,
                   copy_err, succ, driver>>

\* STATE.lock() of the ask block, then param_map.clear().
LockAsk(w) ==
    /\ pc[w] = "lock_ask"
    /\ LockFree
    /\ holds' = [holds EXCEPT ![w] = TRUE]
    /\ param_map' = [param_map EXCEPT ![w] = EmptyMap]
    /\ asked' = [asked EXCEPT ![w] = << >>]
    /\ pc' = [pc EXCEPT ![w] = "ask"]
    /\ UNCHANGED <<scoring, RUNNING, BEST_FITNESS, optim, results, files,
                   pos_file_name, fitness, old_fitness, exit_status, analysis,
                   told, recorded, copy_err, started, succ, driver>>

\* A guard that outlives the block it was taken in.
GuardKept(last) == TRUE

\* The guard of the ask block is held until the block ends, after the last
\* parameter.
GuardHeld(last) == ~last

\* One turn of the ask loop; the guard is dropped when the block ends after
\* the last parameter.
Ask(w) ==
    /\ pc[w] = "ask"
    /\ LET i == Len(asked[w]) + 1
           p == Params[i]
           last == i = Len(Params)
       IN  \E value \in AskValues(p) :
               /\ param_map' = [param_map EXCEPT ![w] = MapInsert(@, p, value)]
               /\ asked' = [asked EXCEPT ![w] = Append(@, <<p, value>>)]
               /\ holds' = [holds EXCEPT ![w] = GuardHeld(last)]
               /\ pc' = [pc EXCEPT ![w] = IF last THEN "run" ELSE "ask"]
    /\ UNCHANGED <<scoring, RUNNING, BEST_FITNESS, optim, results, files,
                   pos_file_name, fitness, old_fitness, exit_status, analysis,
                   told, recorded, copy_err, started, succ, driver>>

\* What run_binary returns for each way the simulator can end.
RunBinaryResult(status) == IF status = "launch_err" THEN "Err" ELSE "Ok"

\* The arm of run_thread's match that run_binary's result selects.
AfterRunBinary(status) ==
    IF RunBinaryResult(status) = "Ok" THEN "analysis" ELSE "waf_err"

\* run_binary: spawn or wait returns Err, or the simulator exits with or
\* without success; in each case it has written its trace file or not.
RunBinary(w) ==
    /\ pc[w] = "run"
    /\ \E status \in {"launch_err", "exit_success", "exit_failure"}, wrote \in BOOLEAN :
           /\ exit_status' = [exit_status EXCEPT ![w] = status]
           /\ files' = IF wrote THEN files \cup {pos_file_name[w]} ELSE files
           /\ pc' = [pc EXCEPT ![w] = AfterRunBinary(status)]
    /\ UNCHANGED <<scoring, RUNNING, BEST_FITNESS, holds, optim, results,
                   pos_file_name, param_map, fitness, old_fitness, analysis,
                   asked, told, recorded, copy_err, started, succ, driver>>

\* The Err arm of run_binary's match: the error is printed, the trace file is
\* removed and the loop goes round.
WafErr(w) ==
    /\ pc[w] = "waf_err"
    /\ files' = files \ {pos_file_name[w]}
    /\ EndIteration(w)
    /\ UNCHANGED <<scoring, RUNNING, BEST_FITNESS, holds, optim, results,
                   copy_err, started, succ, driver>>

\* -------------------------------------------------------------- run_analysis

\* A malformed trace is scored all the same.
AfterParseIgnoringErr(outcome) == IF outcome = "missing" THEN "analysis_err" ELSE "lock_tell"

\* The fitness goes to the comparison with the best before it is told and
\* its Trial pushed.
AfterParseSkippingPush(outcome) == IF outcome = "ok" THEN "load" ELSE "analysis_err"

\* Where the worker goes once the trace has been read and parsed or not: on
\* into run_analysis, or back to run_thread with the Err of the ? operator.
AfterParse(outcome) == IF outcome = "ok" THEN "lock_tell" ELSE "analysis_err"

\* std::fs::read, SimulationData::parse and get_fitness: a missing or
\* malformed trace returns Err to run_thread, which logs it.
Analyse(w) ==
    /\ pc[w] = "analysis"
    /\ \E outcome \in IF pos_file_name[w] \in files THEN {"ok", "malformed"} ELSE {"missing"},
          f \in FitnessValues :
           /\ analysis' = [analysis EXCEPT ![w] = outcome]
           /\ pc' = [pc EXCEPT ![w] = AfterParse(outcome)]
           /\ IF outcome = "ok"
              THEN /\ fitness' = [fitness EXCEPT ![w] = f]
                   /\ succ' = succ + 1
              ELSE /\ f = 998
                   /\ UNCHANGED <<fitness, succ>>
    /\ UNCHANGED <<scoring, RUNNING, BEST_FITNESS, holds, optim, results, files,
                   pos_file_name, param_map, old_fitness, exit_status,
                   asked, told, recorded, copy_err, started, driver>>

\* The Err arm of run_analysis's match: the error is printed, the trace file
\* stays and the loop goes round.
AnalysisErr(w) ==
    /\ pc[w] = "analysis_err"
    /\ EndIteration(w)
    /\ UNCHANGED <<scoring, RUNNING, BEST_FITNESS, holds, optim, results, files,
                   copy_err, started, succ, driver>>

\* STATE.lock() of the tell block.
LockTell(w) ==
    /\ pc[w] = "lock_tell"
    /\ LockFree
    /\ holds' = [holds EXCEPT ![w] = TRUE]
    /\ pc' = [pc EXCEPT ![w] = "tell"]
    /\ UNCHANGED <<scoring, RUNNING, BEST_FITNESS, optim, results, files,
                   pos_file_name, param_map, fitness, old_fitness, exit_status,
                   analysis, asked, told, recorded, copy_err, started, succ, driver>>

\* The tell loop passes the other parameter's value.
TellValueOfOther(w, p) == param_map[w][IF p = Params[1] THEN Params[Len(Params)] ELSE Params[1]]

\* A param_map shared by the threads: the tell loop finds the value the worker
\* that asked last has inserted.
TellValueOfPeer(w, p) ==
    IF \E v \in Workers \ {w} : p \in DOMAIN param_map[v]
    THEN param_map[CHOOSE v \in Workers \ {w} : p \in DOMAIN param_map[v]][p]
    ELSE param_map[w][p]

\* The value the tell loop passes for parameter p: param_map.get(&param.name).
TellValue(w, p) == param_map[w][p]

\* A tell loop that stops after its first parameter.
TellLoopDoneEarly(i) == TRUE

\* The tell loop has gone through state.params.
TellLoopDone(i) == i = Len(Params)

\* One turn of the tell loop.
Tell(w) ==
    /\ pc[w] = "tell"
    /\ LET i == Len(told[w]) + 1
           p == Params[i]
           value == TellValue(w, p)
       IN  /\ optim' = [optim EXCEPT ![p] = Append(@, <<value, fitness[w]>>)]
           /\ told' = [told EXCEPT ![w] = Append(@, <<p, value>>)]
           /\ pc' = [pc EXCEPT ![w] = IF TellLoopDone(i) THEN "push" ELSE "tell"]
    /\ UNCHANGED <<scoring, RUNNING, BEST_FITNESS, holds, results, files,
                   pos_file_name, param_map, fitness, old_fitness, exit_status,
                   analysis, asked, recorded, copy_err, started, succ, driver>>

\* The trial is written over the last entry of a list that has one.
PushOverLast(list, trial) ==
    IF list = << >> THEN <<trial>> ELSE [list EXCEPT ![Len(list)] = trial]

\* What state.results.push does to the trial list.
PushTrial(list, trial) == Append(list, trial)

\* state.results.push((param_map.clone(), fitness)); the guard is dropped when
\* the block ends.
Push(w) ==
    /\ pc[w] = "push"
    /\ results' = PushTrial(results, [assignment |-> param_map[w], fitness |-> fitness[w]])
    /\ recorded' = [recorded EXCEPT ![w] = TRUE]
    /\ holds' = [holds EXCEPT ![w] = FALSE]
    /\ pc' = [pc EXCEPT ![w] = "load"]
    /\ UNCHANGED <<scoring, RUNNING, BEST_FITNESS, optim, files,
                   pos_file_name, param_map, fitness, old_fitness, exit_status,
                   analysis, asked, told, copy_err, started, succ, driver>>

\* The comparison the wrong way round.
ImprovesReversed(f, old) == f > old

\* The comparison with <= for <.
ImprovesOrEqual(f, old) == f <= old

\* if fitness < old_fitness
Improves(f, old) == f < old

\* old_fitness = BEST_FITNESS.load() and the comparison.
LoadBest(w) ==
    /\ pc[w] = "load"
    /\ IF Improves(fitness[w], BEST_FITNESS)
       THEN /\ old_fitness' = [old_fitness EXCEPT ![w] = BEST_FITNESS]
            /\ pc' = [pc EXCEPT ![w] = "store"]
            /\ UNCHANGED fitness
       ELSE /\ old_fitness' = [old_fitness EXCEPT ![w] = 0]
            /\ fitness' = [fitness EXCEPT ![w] = 0]
            /\ pc' = [pc EXCEPT ![w] = "remove"]
    /\ UNCHANGED <<scoring, RUNNING, BEST_FITNESS, holds, optim, results, files,
                   pos_file_name, param_map, exit_status, analysis,
                   asked, told, recorded, copy_err, started, succ, driver>>

\* BEST_FITNESS.store(fitness)
StoreBest(w) ==
    /\ pc[w] = "store"
    /\ BEST_FITNESS' = fitness[w]
    /\ pc' = [pc EXCEPT ![w] = "copy"]
    /\ fitness' = [fitness EXCEPT ![w] = 0]
    /\ old_fitness' = [old_fitness EXCEPT ![w] = 0]
    /\ UNCHANGED <<scoring, RUNNING, holds, optim, results, files,
                   pos_file_name, param_map, exit_status,
                   analysis, asked, told, recorded, copy_err, started, succ, driver>>

\* Where the worker is after std::fs::copy(src, dest).unwrap().
AfterCopy(ok) == IF ok THEN "remove" ELSE "panicked"

\* std::fs::copy(src, dest).unwrap(): the copy fails when the trace file is
\* gone, and can fail when out/ cannot be written; unwrap then panics and the
\* thread unwinds.  The copy in out/ is never read again.
Copy(w) ==
    /\ pc[w] = "copy"
    /\ \E ok \in IF pos_file_name[w] \in files THEN BOOLEAN ELSE {FALSE} :
           /\ copy_err' = [copy_err EXCEPT ![w] = ~ok]
           /\ pc' = [pc EXCEPT ![w] = AfterCopy(ok)]
           /\ IF AfterCopy(ok) = "panicked"
              THEN DropThread(w)
              ELSE UNCHANGED <<pos_file_name, param_map, fitness, old_fitness,
                               exit_status, analysis, asked, told, recorded>>
    /\ UNCHANGED <<scoring, RUNNING, BEST_FITNESS, holds, optim, results, files,
                   started, succ, driver>>

\* std::fs::remove_file(pos_path); a failure is only printed.  run_analysis
\* returns Ok and the loop goes round.
Remove(w) ==
    /\ pc[w] = "remove"
    /\ files' = files \ {pos_file_name[w]}
    /\ EndIteration(w)
    /\ UNCHANGED <<scoring, RUNNING, BEST_FITNESS, holds, optim, results,
                   copy_err, started, succ, driver>>

\* ----------------------------------------------------------------------- run

Ended(w) == pc[w] \in {"exited", "panicked"}

\* A join loop that stops at the first thread that has ended.
AnyEnded == \E w \in Workers : Ended(w)

\* Every thread of the vector has been joined: join returns for a thread that
\* returned and for one that panicked, and its result is discarded.
AllEnded == \A w \in Workers : Ended(w)

\* for thread in threads { let _ = thread.join(); }
JoinAll ==
    /\ driver = "joining"
    /\ AllEnded
    /\ driver' = "exporting"
    /\ UNCHANGED <<scoring, RUNNING, BEST_FITNESS, holds, optim, results, files, pc,
                   pos_file_name, param_map, fitness, old_fitness, exit_status,
                   analysis, asked, told, recorded, copy_err, started, succ>>

\* state.results[0] indexes a vector with no element: run() panics before it
\* has drawn anything.
AggregationFaults(list) == list = << >>

\* The rest of run(): STATE is locked, the trials are binned on the first two
\* names of the first trial's assignment, their fitnesses sorted, and the
\* picture drawn.  Nothing of it writes to the trial list.
Aggregate ==
    /\ driver = "exporting"
    /\ LockFree
    /\ driver' = IF AggregationFaults(results) THEN "faulted" ELSE "done"
    /\ UNCHANGED <<scoring, RUNNING, BEST_FITNESS, holds, optim, results, files, pc,
                   pos_file_name, param_map, fitness, old_fitness, exit_status,
                   analysis, asked, told, recorded, copy_err, started, succ>>

\* --------------------------------------------------------------- the system

WorkerNext(w) ==
    \/ CheckRunning(w)
    \/ LockAsk(w)
    \/ Ask(w)
    \/ RunBinary(w)
    \/ WafErr(w)
    \/ Analyse(w)
    \/ AnalysisErr(w)
    \/ LockTell(w)
    \/ Tell(w)
    \/ Push(w)
    \/ LoadBest(w)
    \/ StoreBest(w)
    \/ Copy(w)
    \/ Remove(w)

Next ==
    \/ Interrupt
    \/ \E w \in Workers : CheckRunning(w)
    \/ \E w \in Workers : LockAsk(w)
    \/ \E w \in Workers : Ask(w)
    \/ \E w \in Workers : RunBinary(w)
    \/ \E w \in Workers : WafErr(w)
    \/ \E w \in Workers : Analyse(w)
    \/ \E w \in Workers : AnalysisErr(w)
    \/ \E w \in Workers : LockTell(w)
    \/ \E w \in Workers : Tell(w)
    \/ \E w \in Workers : Push(w)
    \/ \E w \in Workers : LoadBest(w)
    \/ \E w \in Workers : StoreBest(w)
    \/ \E w \in Workers : Copy(w)
    \/ \E w \in Workers : Remove(w)
    \/ JoinAll
    \/ Aggregate

Spec == Init /\ [][Next]_vars

\* Threads are scheduled, the simulator terminates and a free lock is handed
\* to a waiting thread.
FairSpec == Spec /\ \A w \in Workers : WF_vars(WorkerNext(w)) /\ WF_vars(JoinAll)

\* ---------------------------------------------------------------- get_fitness
\*
\* get_fitness is followed on its own, one pass of its while loop at a time,
\* on traces drawn from a small set.  f64 values are fixed-point numbers in
\* tenths, a position is one coordinate, and time advances by exactly
\* time_step.  The reference entity has a position at every timestep, so the
\* unwrap of line 267 does not fire.

\* The longest declared duration of a trace, in tenths.
MaxSimulationLength == 3

\* What 1.0 is in tenths.
Unit == 10

\* The f64 that is not a number; no distance, mean or time is negative here.
NaN == -1

\* let time_step = 0.1
time_step == 1

\* let mad_threshold = 30.0
mad_threshold == 300

\* The stabilization time of a trace that ends outside a streak: unwrap_or(360.0).
NeverStableTime == 3600

\* data.uavs, in ascending order.
UavList == <<1, 2, 3>>

\* uavs.iter().min()
central_node == 1

\* What pos_at_time gives for the entities at one timestep: the reference
\* entity at the origin, the others 3.0 away both, 1.9 and 2.1 away, 2.9 and
\* 3.1 away, 1.0 and 5.0 away, or at no known position.
FrameSamples ==
    { <<Some(0), Some(30), Some(30)>>,
      <<Some(0), Some(19), Some(21)>>,
      <<Some(0), Some(29), Some(31)>>,
      <<Some(0), Some(10), Some(50)>>,
      <<Some(0), None, None>> }

\* SimulationData: the declared duration and a frame for each timestep of the
\* walk from 0 to it.
Traces ==
    UNION { [simulation_length : {len},
             frames : [1..(len \div time_step + 1) -> FrameSamples]] :
            len \in 0..MaxSimulationLength }

\* data.pos_at_time(TimePoint(time), uav)
PosAtTime(data, t, uav) == data.frames[t \div time_step + 1][uav]

Abs(x) == IF x < 0 THEN 0 - x ELSE x

RECURSIVE Sum(_)
Sum(seq) == IF seq = << >> THEN 0 ELSE Head(seq) + Sum(Tail(seq))

\* rgsl::statistics::mean: 0 for no data.
Mean(seq) == IF seq = << >> THEN 0 ELSE Sum(seq) \div Len(seq)

\* rgsl::statistics::absdev: the mean distance from the mean, 0/0 for no data.
AbsDev(seq) ==
    IF seq = << >> THEN NaN
    ELSE Sum([i \in 1..Len(seq) |-> Abs(seq[i] - Mean(seq))]) \div Len(seq)

\* The product of two f64.
Times(a, b) == IF a = NaN \/ b = NaN THEN NaN ELSE (a * b) \div Unit

\* a < b and a >= b on f64: both are false of NaN.
Lt(a, b) == a # NaN /\ b # NaN /\ a < b

Ge(a, b) == a # NaN /\ b # NaN /\ a >= b

\* The entities with a position at time t.
KnownAt(data, t) == SelectSeq(UavList, LAMBDA u : PosAtTime(data, t, u) # None)

\* The distances pushed at time t: of every entity with a position but the
\* reference entity, from the reference entity.
Distances(data, t) ==
    LET us == SelectSeq(KnownAt(data, t), LAMBDA u : u # central_node)
        central_pos == PosAtTime(data, t, central_node)[1]
    IN  [i \in 1..Len(us) |-> Abs(PosAtTime(data, t, us[i])[1] - central_pos)]

\* The velocities pushed at time t: of every entity with a position now and
\* an entry in last_poses.
Velocities(data, t, last) ==
    LET us == SelectSeq(KnownAt(data, t), LAMBDA u : last[u] # None)
    IN  [i \in 1..Len(us) |->
            (Abs(PosAtTime(data, t, us[i])[1] - last[us[i]][1]) * Unit)
                \div (t - last[us[i]][2])]

\* let mad_percent = mad_of_distance * distances_mean * 100.0
MadPercent(distances) == Times(Times(AbsDev(distances), Mean(distances)), 100 * Unit)

\* A match whose None arm is taken inside a streak too.
StreakRestarting(streak, mad_percent, t) ==
    IF Lt(mad_percent, mad_threshold) THEN Some(t) ELSE streak

\* A match whose Some arm never clears the streak.
StreakNeverCleared(streak, mad_percent, t) ==
    IF streak = None /\ Lt(mad_percent, mad_threshold) THEN Some(t) ELSE streak

\* match under_mad_threshold_time.clone(): inside a streak a metric at or
\* above the threshold clears it, outside one a metric below starts it.
StreakAfter(streak, mad_percent, t) ==
    IF streak # None
    THEN IF Ge(mad_percent, mad_threshold) THEN None ELSE streak
    ELSE IF Lt(mad_percent, mad_threshold) THEN Some(t) ELSE None

\* under_mad_threshold_time.unwrap_or(360.0)
StableTime(streak) == IF streak = None THEN NeverStableTime ELSE streak[1]

\* The locals of get_fitness before its while loop.
Entered(d) ==
    [pc |-> "walk", data |-> d, time |-> 0,
     last_poses |-> [u \in 1..Len(UavList) |-> None],
     all_distances |-> << >>, all_velocities |-> << >>,
     under_mad_threshold_time |-> None, stable_time |-> None, fitness |-> None]

ScoringInit == RunInit /\ \E d \in Traces : scoring = Entered(d)

\* One pass of the while loop.
WalkStep ==
    /\ scoring.pc = "walk"
    /\ scoring.time <= scoring.data.simulation_length
    /\ LET t == scoring.time
           data == scoring.data
           distances == Distances(data, t)
           velocities == Velocities(data, t, scoring.last_poses)
           distances_mean == Mean(distances)
           mean_velocity == Mean(velocities)
           mad_percent == MadPercent(distances)
       IN  scoring' =
               [scoring EXCEPT
                   !.last_poses =
                       [u \in 1..Len(UavList) |->
                           IF PosAtTime(data, t, u) # None
                           THEN <<PosAtTime(data, t, u)[1], t>>
                           ELSE @[u]],
                   !.under_mad_threshold_time = StreakAfter(@, mad_percent, t),
                   !.all_distances = Append(@, <<t, distances_mean>>),
                   !.all_velocities = Append(@, <<t, mean_velocity>>),
                   !.time = t + time_step]
    /\ UNCHANGED runvars

\* The rest of get_fitness, once time is past the declared duration.
Finish ==
    /\ scoring.pc = "walk"
    /\ scoring.time > scoring.data.simulation_length
    /\ LET stable_time == StableTime(scoring.under_mad_threshold_time)
           mean_velocity ==
               Mean([i \in 1..Len(scoring.all_velocities) |-> scoring.all_velocities[i][2]])
           average_distance ==
               Mean([i \in 1..Len(scoring.all_distances) |-> scoring.all_distances[i][2]])
           desired_distance_cost == 200 * Abs(3 * Unit - average_distance)
           stable_time_cost == 1 * stable_time
           velocity_cost == 250 * mean_velocity
       IN  scoring' =
               [scoring EXCEPT
                   !.pc = "done",
                   !.stable_time = Some(stable_time),
                   !.fitness = Some(desired_distance_cost + stable_time_cost + velocity_cost)]
    /\ UNCHANGED runvars

ScoringNext == WalkStep \/ Finish

ScoringSpec == ScoringInit /\ [][ScoringNext]_vars

\* ------------------------------------------------------------- vocabulary

Fitnesses(list) == {list[i].fitness : i \in 1..Len(list)}

SetMin(S) == CHOOSE x \in S : \A y \in S : x <= y

\* The worker is inside the body of the while loop.
InFlight(w) == pc[w] \notin {"check", "exited", "panicked"}

\* The worker is in one of the two Err arms of run_thread's match.
InErrArm(w) == pc[w] \in {"waf_err", "analysis_err"}

\* The worker has pushed its Trial and is in the rest of run_analysis.
PastPush(w) == pc[w] \in {"load", "store", "copy", "remove"}

\* Workers that have a fitness and have not pushed its Trial yet.
Unrecorded == {w \in Workers : pc[w] \in {"lock_tell", "tell", "push"}}

\* The observations p's optimizer holds when every Trial of the list was told.
Observations(p, list) ==
    << <<SeedValue, SeedFitness>> >> \o
    [i \in 1..Len(list) |-> <<list[i].assignment[p], list[i].fitness>>]

\* ------------------------------------------------------------------ claims

\* C1 as stated: after the shutdown flag is set and every worker has exited,
\* BEST_FITNESS equals the minimum fitness among the recorded Trials.
C1_BestEqualsMinimum ==
    (~RUNNING /\ AllEnded /\ results # << >>) =>
        BEST_FITNESS = SetMin(Fitnesses(results))

\* C1 amended: after the shutdown flag is set and every worker has exited,
\* BEST_FITNESS is the 1000.0 it started with or the fitness of a recorded
\* Trial below 1000.0, and it is still 1000.0 only if no recorded Trial is
\* below 1000.0.  It need not be the minimum.
C1_BestIsRecordedImprovement ==
    (~RUNNING /\ AllEnded) =>
        /\ BEST_FITNESS # InitialBestFitness =>
               /\ BEST_FITNESS \in Fitnesses(results)
               /\ BEST_FITNESS < InitialBestFitness
        /\ BEST_FITNESS = InitialBestFitness =>
               \A f \in Fitnesses(results) : f >= InitialBestFitness

\* Two workers raced: the run has ended with BEST_FITNESS a recorded fitness
\* that is not the minimum.
C1_Witness ==
    /\ ~RUNNING
    /\ AllEnded
    /\ Len(results) = 2
    /\ BEST_FITNESS \in Fitnesses(results)
    /\ BEST_FITNESS > SetMin(Fitnesses(results))

\* C2 as stated: every store on BEST_FITNESS writes a value strictly smaller
\* than the value it holds immediately before the store.
C2_StoreStrictlyDecreases ==
    [][\A w \in Workers :
          (pc[w] = "store" /\ pc'[w] = "copy") => BEST_FITNESS' < BEST_FITNESS]_vars

\* C2 amended: every store on BEST_FITNESS writes the worker's fitness, which
\* is strictly smaller than the value that worker loaded from BEST_FITNESS
\* before its comparison.
C2_StoreBelowLoaded ==
    [][\A w \in Workers :
          (pc[w] = "store" /\ pc'[w] = "copy") =>
              /\ BEST_FITNESS' = fitness[w]
              /\ BEST_FITNESS' < old_fitness[w]]_vars

\* A worker is about to store a fitness that is above what BEST_FITNESS has
\* become since the worker loaded it.
C2_Witness ==
    \E w \in Workers :
        /\ pc[w] = "store"
        /\ fitness[w] < old_fitness[w]
        /\ BEST_FITNESS < fitness[w]

\* C3: at most one worker holds the lock of STATE, and a worker holds it
\* exactly while it is in the ask block or in the tell-and-push block, never
\* while it runs the simulator, reads and scores the trace or does anything
\* else.
C3_LockExclusiveAndShort ==
    /\ Cardinality({w \in Workers : holds[w]}) <= 1
    /\ \A w \in Workers : holds[w] <=> pc[w] \in {"ask", "tell", "push"}

\* One worker is telling under the lock while another runs its simulator.
C3_Witness ==
    \E w, v \in Workers :
        /\ holds[w]
        /\ pc[w] = "tell"
        /\ pc[v] = "run"

\* C4 as stated: at the end of an iteration every value asked in it has got
\* its tell.
C4_EveryAskIsTold ==
    \A w \in Workers :
        (InErrArm(w) \/ pc[w] = "remove") => told[w] = asked[w]

\* C4 amended: in an iteration whose evaluation succeeds every asked value
\* gets exactly one tell with the same value, in the order of the ask loop
\* and before the Trial is pushed; in an iteration whose evaluation fails no
\* asked value gets a tell.
C4_AskedIsToldIffScored ==
    \A w \in Workers :
        /\ pc[w] \in {"run", "analysis", "lock_tell", "waf_err", "analysis_err"} =>
               /\ Len(asked[w]) = Len(Params)
               /\ told[w] = << >>
        /\ pc[w] = "tell" =>
               /\ Len(told[w]) < Len(asked[w])
               /\ told[w] = SubSeq(asked[w], 1, Len(told[w]))
        /\ (pc[w] = "push" \/ PastPush(w)) => told[w] = asked[w]
        /\ pc[w] = "push" =>
               \A i \in 1..Len(Params) :
                   optim[Params[i]] =
                       Append(Observations(Params[i], results),
                              <<asked[w][i][2], fitness[w]>>)
        /\ recorded[w] => told[w] = asked[w]
        /\ \A i \in 1..Len(asked[w]) : asked[w][i][1] = Params[i]

\* One worker has told its asked values and pushed, another asked a different
\* value and is in an Err arm.
C4_Witness ==
    \E w, v \in Workers :
        /\ pc[w] = "remove"
        /\ recorded[w]
        /\ told[w] = asked[w]
        /\ InErrArm(v)
        /\ asked[v] # << >>
        /\ asked[w][1][2] # asked[v][1][2]

\* C5 as stated: when the simulator exits without success the iteration tells
\* no optimizer and pushes no Trial.
C5_AbnormalExitAbandons ==
    \A w \in Workers :
        exit_status[w] = "exit_failure" => (told[w] = << >> /\ ~recorded[w])

\* C6: an iteration whose simulator cannot be launched, or whose trace is
\* missing or malformed, goes to an Err arm of run_thread without the lock,
\* having told nothing and pushed nothing, and from there to the loop's next
\* check of RUNNING, leaving the optimizers and the trial list as they are.
C6_FailedEvaluationIsDropped ==
    /\ [](\A w \in Workers :
             (exit_status[w] = "launch_err" \/ analysis[w] \in {"missing", "malformed"}) =>
                 /\ InErrArm(w)
                 /\ told[w] = << >>
                 /\ ~recorded[w]
                 /\ ~holds[w])
    /\ [][\A w \in Workers :
             (InErrArm(w) /\ pc'[w] # pc[w]) =>
                 /\ pc'[w] = "check"
                 /\ optim' = optim
                 /\ results' = results]_vars

\* A worker is in the Err arm for a malformed trace while a Trial of another
\* iteration is in the list.
C6_Witness ==
    \E w \in Workers :
        /\ pc[w] = "analysis_err"
        /\ analysis[w] = "malformed"
        /\ Len(results) = 1

\* C7 as stated: a worker whose copy of the trace file failed is not ended by
\* it.
C7_CopyFailureIsOnlyLogged ==
    \A w \in Workers : copy_err[w] => pc[w] # "panicked"

\* C8: the trial list only grows, by one entry at its end at a time, and it
\* holds exactly one entry for each evaluation that produced a fitness, but
\* for the workers that are between get_fitness and their push.
C8_OneTrialPerEvaluation ==
    /\ [](Len(results) + Cardinality(Unrecorded) = succ)
    /\ [](AllEnded => Len(results) = succ)
    /\ [][\/ results' = results
          \/ /\ Len(results') = Len(results) + 1
             /\ SubSeq(results', 1, Len(results)) = results]_vars

\* Two evaluations produced a fitness and the list has their two Trials.
C8_Witness ==
    /\ succ = 2
    /\ Len(results) = 2
    /\ AllEnded

\* C9: whenever nobody holds the lock, every optimizer holds the seed
\* observation followed by one observation for each recorded Trial, with that
\* Trial's value and fitness, so all optimizers hold the same number.
C9_ModelsInStep ==
    LockFree => \A p \in ParamNames : optim[p] = Observations(p, results)

\* The lock is free and two Trials are recorded.
C9_Witness ==
    /\ LockFree
    /\ Len(results) = 2
    /\ \A p \in ParamNames : Len(optim[p]) = 3

\* How far the worker is in the body of the while loop.
Progress(w) ==
    CASE pc[w] = "lock_ask" -> 1
      [] pc[w] = "ask" -> 2 + Len(asked[w])
      [] pc[w] = "run" -> 2 + Len(Params) + 1
      [] pc[w] \in {"waf_err", "analysis"} -> 2 + Len(Params) + 2
      [] pc[w] \in {"analysis_err", "lock_tell"} -> 2 + Len(Params) + 3
      [] pc[w] = "tell" -> 2 + Len(Params) + 4 + Len(told[w])
      [] pc[w] = "push" -> 2 + 2 * Len(Params) + 5
      [] pc[w] = "load" -> 2 + 2 * Len(Params) + 6
      [] pc[w] = "store" -> 2 + 2 * Len(Params) + 7
      [] pc[w] = "copy" -> 2 + 2 * Len(Params) + 8
      [] pc[w] = "remove" -> 2 + 2 * Len(Params) + 9
      [] OTHER -> 0

\* C10: once RUNNING is false no worker starts an iteration; a worker that is
\* in an iteration is not held up in it: it can take its next step, or it
\* waits for the lock and the holder can take its next step, and every step
\* takes it further on, so the iteration comes to its end (the loop's next
\* check, or the panic of a failed copy, which comes after the push); and an
\* evaluation that produced a fitness has all its tells and its push made
\* under one holding of the lock before the worker leaves the iteration.
C10_ShutdownDrains ==
    /\ [][\A w \in Workers :
             ~RUNNING => (started' = started /\ (InFlight(w)' => InFlight(w)))]_vars
    /\ [](\A w \in Workers :
             (~RUNNING /\ InFlight(w)) =>
                 \/ ENABLED WorkerNext(w)
                 \/ \E v \in Workers \ {w} : holds[v] /\ ENABLED WorkerNext(v))
    /\ [][\A w \in Workers :
             (InFlight(w) /\ <<pc[w], asked[w], told[w]>>' # <<pc[w], asked[w], told[w]>>) =>
                 (~InFlight(w)' \/ Progress(w)' > Progress(w))]_vars
    /\ [][\A w \in Workers :
             (holds[w] /\ ~holds'[w] /\ pc[w] \in {"tell", "push"}) =>
                 /\ told'[w] = asked[w]
                 /\ \A p \in ParamNames : optim'[p] = Observations(p, results')
                 /\ results' = Append(results,
                                      [assignment |-> param_map[w], fitness |-> fitness[w]])]_vars
    /\ [][\A w \in Workers :
             (analysis[w] = "ok" /\ InFlight(w) /\ ~InFlight(w)') => recorded[w]]_vars

\* RUNNING is false, one worker has left the loop and another has just pushed
\* the Trial of the iteration it was in.
C10_Witness ==
    /\ ~RUNNING
    /\ \E w, v \in Workers :
           /\ pc[v] = "exited"
           /\ pc[w] = "load"
           /\ recorded[w]

\* C11: run() goes on to the aggregation only when every worker thread has
\* ended, by leaving its loop or by a panic, and from then on the trial list
\* is never written again.
C11_AggregationAfterJoin ==
    /\ [](driver # "joining" => \A w \in Workers : pc[w] \in {"exited", "panicked"})
    /\ [][driver # "joining" => results' = results]_vars
    /\ [][driver' # "joining" => \A w \in Workers : pc'[w] = pc[w]]_vars

\* The aggregation has begun on a list of two Trials, after one worker left
\* its loop and the other panicked.
C11_Witness ==
    /\ driver = "exporting"
    /\ Len(results) = 2
    /\ \E w, v \in Workers : pc[w] = "exited" /\ pc[v] = "panicked"

\* The time of the k-th pass of get_fitness's loop.
TimeOfPass(k) == (k - 1) * time_step

\* The stability metric the k-th pass computes from the trace.
MetricAt(data, k) == MadPercent(Distances(data, TimeOfPass(k)))

BelowAt(data, k) == Lt(MetricAt(data, k), mad_threshold)

AtOrAboveAt(data, k) == Ge(MetricAt(data, k), mad_threshold)

\* The metric is below the threshold at every timestep from the first one.
AlwaysBelow(data) == \A k \in 1..Len(data.frames) : BelowAt(data, k)

\* The trace ends outside a streak: the metric never dropped below the
\* threshold, or it was at or above it after the last time it was below.
NoStreakAtEnd(data) ==
    \A k \in 1..Len(data.frames) :
        BelowAt(data, k) => \E j \in (k + 1)..Len(data.frames) : AtOrAboveAt(data, j)

\* C12 as stated: for a trace whose metric is below the threshold at every
\* timestep from the first one, the stabilization time get_fitness reports is
\* the declared duration of the trace.
C12_AlwaysStableReportsDuration ==
    (scoring.pc = "done" /\ AlwaysBelow(scoring.data)) =>
        scoring.stable_time = Some(scoring.data.simulation_length)

\* C12 amended: for a trace whose metric is below the threshold at every
\* timestep from the first one, the stabilization time get_fitness reports is
\* 0.0, the time of the first timestep, where the only streak started.
C12_AlwaysStableReportsZero ==
    (scoring.pc = "done" /\ AlwaysBelow(scoring.data)) =>
        scoring.stable_time = Some(0)

\* get_fitness has returned for the longest trace of entities that stay 3.0
\* from the reference entity: no distance cost, no velocity cost, and a
\* stabilization time of 0.0.
C12_Witness ==
    /\ scoring.pc = "done"
    /\ scoring.data.simulation_length = MaxSimulationLength
    /\ \A k \in 1..Len(scoring.data.frames) :
           scoring.data.frames[k] = <<Some(0), Some(3 * Unit), Some(3 * Unit)>>
    /\ scoring.stable_time = Some(0)
    /\ scoring.fitness = Some(0)

\* C13: for a trace whose metric is below the threshold at a timestep, at or
\* above it at a later one and below it again after that, and that ends in
\* the streak begun then, the stabilization time get_fitness reports is the
\* time of the timestep where that last streak started, and not the time of
\* a timestep of an earlier streak.
C13_LastStreakStartReported ==
    scoring.pc = "done" =>
        \A i, j, k \in 1..Len(scoring.data.frames) :
            ( /\ i < j
              /\ j < k
              /\ BelowAt(scoring.data, i)
              /\ AtOrAboveAt(scoring.data, j)
              /\ BelowAt(scoring.data, k)
              /\ \A m \in (j + 1)..(k - 1) : ~BelowAt(scoring.data, m)
              /\ \A m \in (k + 1)..Len(scoring.data.frames) : ~AtOrAboveAt(scoring.data, m) ) =>
                /\ scoring.stable_time = Some(TimeOfPass(k))
                /\ scoring.stable_time # Some(TimeOfPass(i))

\* get_fitness has returned for a trace that is below the threshold at 0.0,
\* exactly at it at 0.1 and below it from 0.2 to its end: it reports 0.2.
C13_Witness ==
    /\ scoring.pc = "done"
    /\ Len(scoring.data.frames) > 3
    /\ BelowAt(scoring.data, 1)
    /\ MetricAt(scoring.data, 2) = mad_threshold
    /\ \A m \in 3..Len(scoring.data.frames) : BelowAt(scoring.data, m)
    /\ scoring.stable_time = Some(TimeOfPass(3))

\* C17 as stated: for a trace that ends outside a streak, the stabilization
\* time get_fitness reports is the declared duration of the trace.
C17_NoStreakReportsDuration ==
    (scoring.pc = "done" /\ NoStreakAtEnd(scoring.data)) =>
        scoring.stable_time = Some(scoring.data.simulation_length)

\* The worker has asked every parameter of this iteration and not ended it.
HasAssignment(w) ==
    pc[w] \in {"run", "waf_err", "analysis", "analysis_err", "lock_tell",
               "tell", "push", "load", "store", "copy", "remove"}

\* C14: the assignment of every recorded Trial has exactly the declared
\* parameter names as its keys, each with a value its optimizer proposed; and
\* so has the param_map of every worker from the end of its ask block to the
\* end of its iteration, each name with the value asked in this iteration.
C14_TrialsHaveDeclaredNames ==
    /\ \A i \in 1..Len(results) :
           /\ DOMAIN results[i].assignment = ParamNames
           /\ \A p \in ParamNames : results[i].assignment[p] \in AskValues(p)
    /\ \A w \in Workers :
           HasAssignment(w) =>
               /\ DOMAIN param_map[w] = ParamNames
               /\ \A i \in 1..Len(asked[w]) :
                      param_map[w][asked[w][i][1]] = asked[w][i][2]

\* Two Trials are recorded, with different values for the first parameter
\* and each with all the names.
C14_Witness ==
    /\ Len(results) = 2
    /\ results[1].assignment[Params[1]] # results[2].assignment[Params[1]]
    /\ \A i \in 1..2 : DOMAIN results[i].assignment = ParamNames

\* C15: a worker tells nothing before it has asked every parameter of the
\* iteration, and each of its tells gives the optimizer of one parameter, and
\* no other, the value this worker asked for that parameter in this iteration
\* with the fitness of this iteration, whatever the other workers have asked
\* or told in between.
C15_TellCarriesOwnAsk ==
    /\ [](\A w \in Workers :
             /\ pc[w] \in {"lock_ask", "ask"} => told[w] = << >>
             /\ told[w] # << >> => Len(asked[w]) = Len(Params))
    /\ [][\A w \in Workers :
             told'[w] # told[w] /\ told'[w] # << >> =>
                 LET i == Len(told'[w])
                     p == Params[i]
                 IN  /\ pc[w] = "tell"
                     /\ Len(asked[w]) = Len(Params)
                     /\ asked[w][i][1] = p
                     /\ told'[w] = Append(told[w], asked[w][i])
                     /\ optim'[p] = Append(optim[p], <<asked[w][i][2], fitness[w]>>)
                     /\ \A q \in ParamNames \ {p} : optim'[q] = optim[q]]_vars

\* A worker is in its tell loop, one parameter told, while another worker is
\* in an iteration of its own for which it asked a different value of the
\* first parameter.
C15_Witness ==
    \E w, v \in Workers :
        /\ pc[w] = "tell"
        /\ Len(told[w]) = 1
        /\ HasAssignment(v)
        /\ asked[v][1][2] # asked[w][1][2]

\* C16 as stated: two workers that are in an iteration at the same time have
\* different names for their trace files.
C16_InFlightNamesDiffer ==
    \A w, v \in Workers :
        (w # v /\ InFlight(w) /\ InFlight(v)) => pos_file_name[w] # pos_file_name[v]

\* C19: BEST_FITNESS is the 1000.0 it started with or the fitness of a Trial
\* that is in the trial list.
C19_BestIsSentinelOrRecorded ==
    \/ BEST_FITNESS = InitialBestFitness
    \/ BEST_FITNESS \in Fitnesses(results)

\* BEST_FITNESS holds the fitness of a recorded Trial while a worker that has
\* pushed the Trial of a lower fitness is about to store it.
C19_Witness ==
    /\ BEST_FITNESS # InitialBestFitness
    /\ BEST_FITNESS \in Fitnesses(results)
    /\ \E w \in Workers :
           /\ pc[w] = "store"
           /\ fitness[w] < BEST_FITNESS
           /\ fitness[w] \in Fitnesses(results)

\* C20 as stated: run() does not panic in its aggregation, whatever trial
\* list the workers have left.
C20_AggregationCompletes == driver # "faulted"

\* C18: a worker that waits for the lock of STATE waits for another worker
\* that holds it and can take its next step; and when threads are scheduled,
\* the simulator terminates and a free lock is handed to a waiting thread,
\* RUNNING set to false leads to every worker having ended and run() having
\* gone past its joins to the aggregation.
C18_NoDeadlockAndDrains ==
    /\ [](\A w \in Workers :
             pc[w] \in {"lock_ask", "lock_tell"} =>
                 \/ ENABLED WorkerNext(w)
                 \/ \E v \in Workers \ {w} : holds[v] /\ ENABLED WorkerNext(v))
    /\ (~RUNNING ~>
            /\ \A w \in Workers : pc[w] \in {"exited", "panicked"}
            /\ driver # "joining")

\* RUNNING is false, both workers were in an iteration when it was set and
\* one waited for the lock the other held; now both have left their loops and
\* run() is past its joins.
C18_Witness ==
    /\ ~RUNNING
    /\ \A w \in Workers : pc[w] = "exited"
    /\ driver # "joining"
    /\ Len(results) = 2

====
